---- MODULE Spec2Model ----
(***************************************************************************)
(* Double-entry ledger core of mbsis_project (Django app "core").          *)
(*                                                                         *)
(* State: the FiscalPeriod, JournalEntry and JournalLine tables, the       *)
(* auto-increment keys of the two journal tables, the applied data         *)
(* migrations, the outcome of the most recent write, the entry saves that  *)
(* have been validated but not yet written, and the most recent report.    *)
(* Amounts are integers (units of 0.01); dates are integers yyyymmdd.      *)
(***************************************************************************)
EXTENDS Integers, Sequences, FiniteSets, TLC

VARIABLES periods, entries, lines, nextEntryId, nextLineId, applied, err, pend, resp

vars == <<periods, entries, lines, nextEntryId, nextLineId, applied, err, pend, resp>>

-----------------------------------------------------------------------------
(* Bounds and input sets *)

\* journal entries ever created by the ledger operations
MaxEntries == 2

\* journal lines ever created by the ledger operations
MaxLines == 2

\* entry saves validated and not yet written
MaxPending == 1

\* lines of a ledger the backfill runs on
MaxBackfillLines == 3

\* entry dates: two years, two months, two days of one month
Dates == {20251231, 20260115, 20260131}

\* amounts offered to a line write, valid or not
AmountInputs == {-1, 0, 1}

\* line_no values found before the backfill
LineNoInputs == {1, 2, 3}

ReportEntries == {1, 2}

ReportAmounts == {0, 1}

SheetAccounts == {<<1, 0, 0>>, <<3, 0, 0>>, <<5, 0, 0>>, <<6, 0, 0>>, <<7, 0, 0>>}

MizanAccounts == {<<1, 0, 0>>, <<6, 0, 0>>}

IncomeAccounts == {<<1, 0, 0>>, <<6, 0, 0>>, <<7, 0, 0>>, <<6, 1, 0>>, <<7, 1, 0>>}

\* a start or end parameter: missing or empty, not date-shaped, date-shaped
\* but no calendar date, or an ISO date
StrInputs ==
  {[kind |-> k, date |-> 0] : k \in {"absent", "malformed", "nodate"}}
    \cup {[kind |-> "iso", date |-> d] : d \in Dates}

Todays == {20260131}

Years == {2025, 2026}

Months == {1, 12}

\* lines of a ledger a report runs on
MaxReportLines == 2

\* the account of the lines written by the ledger operations
PostingAccounts == {<<1, 0, 0>>}

Year(d) == d \div 10000

Month(d) == (d \div 100) % 100

PeriodKeys == {<<Year(d), Month(d)>> : d \in Dates}

-----------------------------------------------------------------------------
(* Program constants *)

DRAFT == "D"

POSTED == "P"

STATUS_CHOICES == {DRAFT, POSTED}

ASSET == "AS"

LIABILITY == "LI"

EQUITY == "EQ"

INCOME == "IN"

EXPENSE == "EX"

TYPE_CHOICES == {ASSET, LIABILITY, EQUITY, INCOME, EXPENSE}

\* The chart of accounts: code -> type. A code is its string of digits.
Account ==
  [c \in {<<1, 0, 0>>, <<3, 0, 0>>, <<5, 0, 0>>, <<6, 0, 0>>, <<7, 0, 0>>,
          <<6, 1, 0>>, <<7, 1, 0>>} |->
     CASE c = <<1, 0, 0>> -> ASSET
       [] c = <<3, 0, 0>> -> LIABILITY
       [] c = <<5, 0, 0>> -> EQUITY
       [] c = <<6, 0, 0>> -> INCOME
       [] c = <<7, 0, 0>> -> EXPENSE
       [] c = <<6, 1, 0>> -> EXPENSE
       [] c = <<7, 1, 0>> -> INCOME]

Codes == DOMAIN Account

None == 0

NoResp == [op |-> "none"]

-----------------------------------------------------------------------------
(* Queries *)

RECURSIVE SumOf(_, _)
\* Python sum() / SQL SUM over the rows S of the column f.
SumOf(f, S) ==
  IF S = {} THEN 0
  ELSE LET x == CHOOSE x \in S : TRUE IN f[x] + SumOf(f, S \ {x})

debit_col == [l \in DOMAIN lines |-> lines[l].debit]

credit_col == [l \in DOMAIN lines |-> lines[l].credit]

\* entry.lines.all()
LinesOf(e) == {l \in DOMAIN lines : lines[l].entry = e}

total_debit(e) == SumOf(debit_col, LinesOf(e))

total_credit(e) == SumOf(credit_col, LinesOf(e))

\* FiscalPeriod.objects.filter(year=..., month=...).first(); <<>> when no row
PeriodFirst(d) ==
  LET m == {p \in periods : p.year = Year(d) /\ p.month = Month(d)}
  IN IF m = {} THEN <<>> ELSE <<CHOOSE p \in m : TRUE>>

\* clean with the is_closed test dropped: any period row closes the period.
clean_any_row(pk, d, s) ==
  LET per == PeriodFirst(d)
  IN IF per # <<>> THEN "period_closed"
     ELSE IF pk = None THEN "ok"
     ELSE IF s = POSTED /\ total_debit(pk) # total_credit(pk) THEN "unbalanced"
     ELSE "ok"

\* JournalEntry.clean for an instance with key pk (None before the first
\* save), date d and status s; the totals are those of the stored lines.
clean(pk, d, s) ==
  LET per == PeriodFirst(d)
  IN IF per # <<>> /\ per[1].is_closed THEN "period_closed"
     ELSE IF pk = None THEN "ok"
     ELSE IF s = POSTED /\ total_debit(pk) # total_credit(pk) THEN "unbalanced"
     ELSE "ok"

\* JournalLine.Meta.constraints
chk_no_both_positive_debit_credit(debit, credit) == ~(debit > 0) \/ credit = 0

chk_no_both_positive_credit_debit(debit, credit) == ~(credit > 0) \/ debit = 0

chk_must_have_amount(debit, credit) == debit > 0 \/ credit > 0

\* constraints without chk_must_have_amount.
constraints_no_amount(debit, credit) ==
  /\ chk_no_both_positive_debit_credit(debit, credit)
  /\ chk_no_both_positive_credit_debit(debit, credit)

constraints(debit, credit) ==
  /\ chk_no_both_positive_debit_credit(debit, credit)
  /\ chk_no_both_positive_credit_debit(debit, credit)
  /\ chk_must_have_amount(debit, credit)

-----------------------------------------------------------------------------
(* Balances and reports *)

EntryDate(l) == entries[lines[l].entry].date

\* SQL SUM of a column over the rows S: NULL (<<>>) over no rows
Sum(col, S) == IF S = {} THEN <<>> ELSE <<SumOf(col, S)>>

\* v or Decimal("0.00"): the value unless it is None or zero
or_zero(v) == IF v = <<>> THEN 0 ELSE IF v[1] = 0 THEN 0 ELSE v[1]

\* get_balance with the sign of a debit-normal account for every type
get_balance_debit_normal(acc, year, month) ==
  LET qs0 == {l \in DOMAIN lines : lines[l].account = acc}
      qs1 == IF year # None THEN {l \in qs0 : Year(EntryDate(l)) = year} ELSE qs0
      qs2 == IF month # None THEN {l \in qs1 : Month(EntryDate(l)) = month} ELSE qs1
  IN or_zero(Sum(debit_col, qs2)) - or_zero(Sum(credit_col, qs2))

\* Account.get_balance
get_balance(acc, year, month) ==
  LET qs0 == {l \in DOMAIN lines : lines[l].account = acc}
      qs1 == IF year # None THEN {l \in qs0 : Year(EntryDate(l)) = year} ELSE qs0
      qs2 == IF month # None THEN {l \in qs1 : Month(EntryDate(l)) = month} ELSE qs1
      td == or_zero(Sum(debit_col, qs2))
      tc == or_zero(Sum(credit_col, qs2))
  IN IF Account[acc] \in {ASSET, EXPENSE} THEN td - tc ELSE tc - td

\* date(year, 12, 31)
YearEnd(year) == year * 10000 + 1231

\* date(year, 1, 1)
YearStart(year) == year * 10000 + 101

\* _account_balance_until
account_balance_until(acc, year) ==
  LET cutoff == YearEnd(year)
      qs == {l \in DOMAIN lines : lines[l].account = acc /\ EntryDate(l) <= cutoff}
      td == or_zero(Sum(debit_col, qs))
      tc == or_zero(Sum(credit_col, qs))
  IN IF Account[acc] \in {ASSET, EXPENSE} THEN td - tc ELSE tc - td

\* string order of two codes
CodeLess(a, b) ==
  \/ \E i \in 1..Len(a) : /\ i <= Len(b)
                          /\ a[i] < b[i]
                          /\ \A j \in 1..(i - 1) : a[j] = b[j]
  \/ Len(a) < Len(b) /\ \A j \in 1..Len(a) : a[j] = b[j]

RECURSIVE OrderByCode(_)
\* order_by("code") / order_by("account__code")
OrderByCode(S) ==
  IF S = {} THEN <<>>
  ELSE LET m == CHOOSE x \in S : \A y \in S \ {x} : CodeLess(x, y)
       IN <<m>> \o OrderByCode(S \ {m})

RECURSIVE SumBalance(_)
\* sum(r["balance"] for r in rows)
SumBalance(rows) ==
  IF rows = <<>> THEN 0 ELSE Head(rows).balance + SumBalance(Tail(rows))

DNET == <<"DNET">>

RECURSIVE balance_loop(_, _, _)
\* the for loop of generate_balance over the accounts still to visit
balance_loop(accs, year, st) ==
  IF accs = <<>> THEN st
  ELSE LET acc == Head(accs)
           bal == account_balance_until(acc, year)
           row == [code |-> acc, balance |-> bal]
           t == Account[acc]
           st2 == IF bal = 0 THEN st
                  ELSE IF t = ASSET THEN [st EXCEPT !.assets = Append(@, row)]
                  ELSE IF t = LIABILITY THEN [st EXCEPT !.liabilities = Append(@, row)]
                  ELSE IF t = EQUITY THEN [st EXCEPT !.equities = Append(@, row)]
                  ELSE IF t = INCOME THEN [st EXCEPT !.income_total = @ + bal]
                  ELSE IF t = EXPENSE THEN [st EXCEPT !.expense_total = @ + bal]
                  ELSE st
       IN balance_loop(Tail(accs), year, st2)

\* the report from the loop's result st; with_dnet: the net result is appended
balance_report(st, with_dnet) ==
  LET net_result == st.income_total - st.expense_total
      equities == IF with_dnet /\ net_result # 0
                  THEN Append(st.equities, [code |-> DNET, balance |-> net_result])
                  ELSE st.equities
      total_assets == IF st.assets # <<>> THEN SumBalance(st.assets) ELSE 0
      total_liabilities == IF st.liabilities # <<>> THEN SumBalance(st.liabilities) ELSE 0
      total_equity == IF equities # <<>> THEN SumBalance(equities) ELSE 0
  IN [assets |-> st.assets,
      liabilities |-> st.liabilities,
      equities |-> equities,
      total_assets |-> total_assets,
      total_liabilities_equity |-> total_liabilities + total_equity,
      match |-> (total_assets = total_liabilities + total_equity),
      net_result |-> net_result]

balance_start ==
  [assets |-> <<>>, liabilities |-> <<>>, equities |-> <<>>,
   income_total |-> 0, expense_total |-> 0]

\* generate_balance without the synthetic net-result line
generate_balance_no_dnet(year) ==
  balance_report(balance_loop(OrderByCode(Codes), year, balance_start), FALSE)

\* generate_balance (the rows' display names are left out)
generate_balance(year) ==
  balance_report(balance_loop(OrderByCode(Codes), year, balance_start), TRUE)

-----------------------------------------------------------------------------
(* Trial balance (mizan) and income statement *)

\* date.isoformat()
isoformat(d) == [kind |-> "iso", date |-> d]

\* GET.get(key) or default: the default for a missing or empty parameter
get_or(str, default) == IF str.kind = "absent" THEN default ELSE str

\* date.fromisoformat raises ValueError on any string but an ISO calendar date
RaisesValueError(str) == str.kind # "iso"

\* today.replace(day=1)
first_day(today) == (today \div 100) * 100 + 1

\* the lines after the try block of mizan
mizan_lines(start_str, end_str) ==
  LET all == DOMAIN lines
  IN IF RaisesValueError(start_str) THEN all
     ELSE LET from == {l \in all : EntryDate(l) >= start_str.date}
          IN IF RaisesValueError(end_str) THEN from
             ELSE {l \in from : EntryDate(l) <= end_str.date}

\* values("account__code").annotate(debit_sum=, credit_sum=) of the rows S,
\* with the credit column summed from the type-adjusted side
grouped_swapped(S, code) ==
  LET g == {l \in S : lines[l].account = code}
  IN [code |-> code,
      debit_sum |-> Sum(debit_col, g),
      credit_sum |-> IF Account[code] \in {ASSET, EXPENSE}
                     THEN Sum(credit_col, g) ELSE Sum(debit_col, g)]

\* values("account__code", ...).annotate(debit_sum=Sum("debit"),
\* credit_sum=Sum("credit")): the group of one account among the rows S
grouped(S, code) ==
  LET g == {l \in S : lines[l].account = code}
  IN [code |-> code, debit_sum |-> Sum(debit_col, g), credit_sum |-> Sum(credit_col, g)]

\* the groups of S, one per account with a row in S, ordered by code
Annotate(S) ==
  LET codes == OrderByCode({lines[l].account : l \in S})
  IN [i \in 1..Len(codes) |-> grouped(S, codes[i])]

RECURSIVE mizan_loop(_, _)
\* the for loop of mizan over the groups still to visit
mizan_loop(qs, st) ==
  IF qs = <<>> THEN st
  ELSE LET r == Head(qs)
           d == or_zero(r.debit_sum)
           c == or_zero(r.credit_sum)
       IN mizan_loop(Tail(qs),
            [rows |-> Append(st.rows, [code |-> r.code, debit |-> d, credit |-> c,
                                       balance |-> d - c]),
             total_debit |-> st.total_debit + d,
             total_credit |-> st.total_credit + c])

\* mizan: the context handed to the template (display names left out)
mizan(start, end, today) ==
  LET start_str == get_or(start, isoformat(first_day(today)))
      end_str == get_or(end, isoformat(today))
      ls == mizan_lines(start_str, end_str)
      st == mizan_loop(Annotate(ls), [rows |-> <<>>, total_debit |-> 0, total_credit |-> 0])
  IN [rows |-> st.rows,
      total_debit |-> st.total_debit,
      total_credit |-> st.total_credit,
      total_balance |-> st.total_debit - st.total_credit,
      start |-> start_str,
      end |-> end_str,
      rows_count |-> Len(st.rows),
      lines_count |-> Cardinality(ls)]

\* code.startswith(digit), for a non-empty code
startswith(code, digit) == code # <<>> /\ code[1] = digit

RECURSIVE income_loop(_, _)
\* the for loop of generate_income_statement over the groups still to visit
income_loop(qs, st) ==
  IF qs = <<>> THEN st
  ELSE LET r == Head(qs)
           code == r.code
           acc_type == Account[code]
           d == or_zero(r.debit_sum)
           c == or_zero(r.credit_sum)
           is_income == startswith(code, 6) \/ acc_type = INCOME
           is_expense == startswith(code, 7) \/ acc_type = EXPENSE
           st2 ==
             IF ~is_income /\ ~is_expense THEN st
             ELSE IF is_income
                  THEN IF c - d = 0 THEN st
                       ELSE [st EXCEPT
                               !.incomes = Append(@, [code |-> code, amount |-> c - d]),
                               !.total_income = @ + (c - d)]
                  ELSE IF d - c = 0 THEN st
                       ELSE [st EXCEPT
                               !.expenses = Append(@, [code |-> code, amount |-> d - c]),
                               !.total_expense = @ + (d - c)]
       IN income_loop(Tail(qs), st2)

\* generate_income_statement (display names left out)
generate_income_statement(year) ==
  LET ls == {l \in DOMAIN lines :
               EntryDate(l) >= YearStart(year) /\ EntryDate(l) <= YearEnd(year)}
      st == income_loop(Annotate(ls),
              [incomes |-> <<>>, expenses |-> <<>>, total_income |-> 0,
               total_expense |-> 0])
      net_result == st.total_income - st.total_expense
  IN [year |-> year,
      incomes |-> st.incomes,
      expenses |-> st.expenses,
      total_income |-> st.total_income,
      total_expense |-> st.total_expense,
      net_result |-> net_result,
      is_profit |-> (net_result >= 0)]

-----------------------------------------------------------------------------
(* Migration 0004_fill_line_no *)

\* order_by("entry_id", "id")
BeforeInOrder(ls, a, b) ==
  \/ ls[a].entry < ls[b].entry
  \/ ls[a].entry = ls[b].entry /\ a < b

FirstInOrder(ls, S) == CHOOSE x \in S : \A y \in S \ {x} : BeforeInOrder(ls, x, y)

RECURSIVE forwards_loop_no_reset(_, _, _, _)
\* the loop with the counter never reset at a new entry
forwards_loop_no_reset(ls, todo, current_entry, counter) ==
  IF todo = {} THEN ls
  ELSE LET jl == FirstInOrder(ls, todo)
           c == counter + 1
       IN forwards_loop_no_reset([ls EXCEPT ![jl].line_no = c], todo \ {jl},
                                 ls[jl].entry, c)

RECURSIVE forwards_loop(_, _, _, _)
\* the for loop of forwards over the rows still to visit
forwards_loop(ls, todo, current_entry, counter) ==
  IF todo = {} THEN ls
  ELSE LET jl == FirstInOrder(ls, todo)
           c == IF ls[jl].entry # current_entry THEN 1 ELSE counter + 1
       IN forwards_loop([ls EXCEPT ![jl].line_no = c], todo \ {jl}, ls[jl].entry, c)

forwards(ls) == forwards_loop(ls, DOMAIN ls, None, 0)

-----------------------------------------------------------------------------
(* Initial state: empty tables *)

Init ==
  /\ periods = {}
  /\ entries = <<>>
  /\ lines = <<>>
  /\ nextEntryId = 1
  /\ nextLineId = 1
  /\ applied = FALSE
  /\ err = "ok"
  /\ pend = {}
  /\ resp = NoResp

-----------------------------------------------------------------------------
(* Fiscal periods *)

\* Saving a FiscalPeriod row: the row of (year, month) is created or its
\* is_closed flag rewritten (unique_together keeps one row per key).
SavePeriod(k, closed) ==
  /\ periods' = {p \in periods : ~(p.year = k[1] /\ p.month = k[2])}
                  \cup {[year |-> k[1], month |-> k[2], is_closed |-> closed]}
  /\ err' = "ok"
  /\ UNCHANGED <<entries, lines, nextEntryId, nextLineId, applied, pend, resp>>

-----------------------------------------------------------------------------
(* Journal entries: full_clean() then save() *)

CreateEntry(d, s) ==
  /\ nextEntryId <= MaxEntries
  /\ LET r == clean(None, d, s)
     IN /\ err' = r
        /\ IF r = "ok"
           THEN /\ entries' = (nextEntryId :> [date |-> d, status |-> s]) @@ entries
                /\ nextEntryId' = nextEntryId + 1
           ELSE UNCHANGED <<entries, nextEntryId>>
  /\ UNCHANGED <<periods, lines, nextLineId, applied, pend, resp>>

UpdateEntry(e, d, s) ==
  /\ e \in DOMAIN entries
  /\ LET r == clean(e, d, s)
     IN /\ err' = r
        /\ IF r = "ok"
           THEN entries' = [entries EXCEPT ![e] = [date |-> d, status |-> s]]
           ELSE UNCHANGED entries
  /\ UNCHANGED <<periods, lines, nextEntryId, nextLineId, applied, pend, resp>>

\* JournalEntry.delete(): the lines go with it (on_delete=CASCADE).
DeleteEntry(e) ==
  /\ e \in DOMAIN entries
  /\ entries' = [x \in DOMAIN entries \ {e} |-> entries[x]]
  /\ lines' = [l \in DOMAIN lines \ LinesOf(e) |-> lines[l]]
  /\ err' = "ok"
  /\ UNCHANGED <<periods, nextEntryId, nextLineId, applied, pend, resp>>

-----------------------------------------------------------------------------
(* Journal lines: the writes are checked by the table's constraints only *)

AddLine(e, a, debit, credit, n) ==
  /\ nextLineId <= MaxLines
  /\ e \in DOMAIN entries
  /\ IF constraints(debit, credit)
     THEN /\ lines' = (nextLineId :> [entry |-> e, account |-> a, line_no |-> n,
                                      debit |-> debit, credit |-> credit]) @@ lines
          /\ nextLineId' = nextLineId + 1
          /\ err' = "ok"
     ELSE /\ err' = "constraint"
          /\ UNCHANGED <<lines, nextLineId>>
  /\ UNCHANGED <<periods, entries, nextEntryId, applied, pend, resp>>

EditLine(l, e, a, debit, credit, n) ==
  /\ l \in DOMAIN lines
  /\ e \in DOMAIN entries
  /\ IF constraints(debit, credit)
     THEN /\ lines' = [lines EXCEPT ![l] = [entry |-> e, account |-> a, line_no |-> n,
                                            debit |-> debit, credit |-> credit]]
          /\ err' = "ok"
     ELSE /\ err' = "constraint"
          /\ UNCHANGED lines
  /\ UNCHANGED <<periods, entries, nextEntryId, nextLineId, applied, pend, resp>>

DeleteLine(l) ==
  /\ l \in DOMAIN lines
  /\ lines' = [x \in DOMAIN lines \ {l} |-> lines[x]]
  /\ err' = "ok"
  /\ UNCHANGED <<periods, entries, nextEntryId, nextLineId, applied, pend, resp>>

-----------------------------------------------------------------------------

Next ==
  \/ \E k \in PeriodKeys, closed \in BOOLEAN : SavePeriod(k, closed)
  \/ \E d \in Dates, s \in STATUS_CHOICES : CreateEntry(d, s)
  \/ \E e \in 1..MaxEntries, d \in Dates, s \in STATUS_CHOICES : UpdateEntry(e, d, s)
  \/ \E e \in 1..MaxEntries : DeleteEntry(e)
  \/ \E e \in 1..MaxEntries, a \in PostingAccounts, debit \in AmountInputs,
        credit \in AmountInputs : AddLine(e, a, debit, credit, 1)
  \/ \E l \in 1..MaxLines, e \in 1..MaxEntries, a \in PostingAccounts,
        debit \in AmountInputs, credit \in AmountInputs :
          EditLine(l, e, a, debit, credit, 1)
  \/ \E l \in 1..MaxLines : DeleteLine(l)

Spec == Init /\ [][Next]_vars

-----------------------------------------------------------------------------
(* Entry saves whose validation and write are separate steps: clean() reads *)
(* the period row, save() writes the entry later, and nothing in between    *)
(* locks the period row.                                                    *)

\* form/model validation of a create (pk = None) or an update
BeginSave(pk, d, s) ==
  /\ Cardinality(pend) < MaxPending
  /\ pk = None \/ pk \in DOMAIN entries
  /\ LET r == clean(pk, d, s)
     IN /\ err' = r
        /\ pend' = IF r = "ok" THEN pend \cup {[pk |-> pk, date |-> d, status |-> s]}
                   ELSE pend
  /\ UNCHANGED <<periods, entries, lines, nextEntryId, nextLineId, applied, resp>>

\* Model.save(): INSERT for a new instance; UPDATE for a stored one, INSERT
\* under the same key when the row is gone.
CommitSave(r) ==
  /\ r \in pend
  /\ pend' = pend \ {r}
  /\ IF r.pk = None
     THEN /\ nextEntryId <= MaxEntries
          /\ entries' = (nextEntryId :> [date |-> r.date, status |-> r.status]) @@ entries
          /\ nextEntryId' = nextEntryId + 1
     ELSE /\ entries' = (r.pk :> [date |-> r.date, status |-> r.status]) @@ entries
          /\ UNCHANGED nextEntryId
  /\ err' = "ok"
  /\ UNCHANGED <<periods, lines, nextLineId, applied, resp>>

NextConc ==
  \/ \E k \in PeriodKeys, closed \in BOOLEAN : SavePeriod(k, closed)
  \/ \E e \in 1..MaxEntries : DeleteEntry(e)
  \/ \E e \in 1..MaxEntries, a \in PostingAccounts, debit \in AmountInputs,
        credit \in AmountInputs : AddLine(e, a, debit, credit, 1)
  \/ \E pk \in {None} \cup (1..MaxEntries), d \in Dates, s \in STATUS_CHOICES :
        BeginSave(pk, d, s)
  \/ \E r \in pend : CommitSave(r)

SpecConc == Init /\ [][NextConc]_vars

-----------------------------------------------------------------------------
(* Properties of the ledger operations *)

\* A FiscalPeriod row for the month of d exists and is closed.
ClosedRecordExists(d) ==
  \E p \in periods : p.year = Year(d) /\ p.month = Month(d) /\ p.is_closed

SaveEntry(pk, d, s) == IF pk = None THEN CreateEntry(d, s) ELSE UpdateEntry(pk, d, s)

\* C1: every POSTED entry has total_debit = total_credit.
C1_PostedBalanced ==
  \A e \in DOMAIN entries :
    entries[e].status = POSTED => total_debit(e) = total_credit(e)

\* C2: a create or update of an entry, of any date and status, fails with the
\* period-closed error exactly when a closed FiscalPeriod row exists for the
\* month of its date, and a failed validation leaves entries and lines as
\* they were.
C2_PeriodCheck ==
  [][\A pk \in {None} \cup (1..MaxEntries), d \in Dates, s \in STATUS_CHOICES :
       SaveEntry(pk, d, s) =>
         /\ (err' = "period_closed") <=> ClosedRecordExists(d)
         /\ err' # "ok" => (entries' = entries /\ lines' = lines)]_vars

\* C2 witness: a save was rejected for a closed period while the ledger holds
\* an entry with lines.
C2_Witness ==
  /\ err = "period_closed"
  /\ \E e \in DOMAIN entries : ClosedRecordExists(entries[e].date) /\ LinesOf(e) # {}

\* The lines (with their keys) whose entry is dated in the month k.
LinesIn(k) ==
  {<<l, lines[l]>> : l \in {x \in DOMAIN lines :
      <<Year(entries[lines[x].entry].date), Month(entries[lines[x].entry].date)>> = k}}

KeyClosed(k) == \E p \in periods : p.year = k[1] /\ p.month = k[2] /\ p.is_closed

\* C3: while a period stays closed, the set of lines dated inside it does not
\* change.
C3_ClosedImmutable ==
  [][\A k \in PeriodKeys : (KeyClosed(k) /\ KeyClosed(k)') => LinesIn(k)' = LinesIn(k)]_vars

ExactlyOneSide(debit, credit) ==
  \/ debit > 0 /\ credit = 0
  \/ credit > 0 /\ debit = 0

\* C4: every stored line has exactly one of debit and credit strictly positive
\* and the other zero; a line write that is not of that shape is rejected by the
\* constraints, whatever the status of its entry, and changes nothing.
C4_LineAmounts ==
  [][/\ \A l \in DOMAIN lines' : ExactlyOneSide(lines'[l].debit, lines'[l].credit)
     /\ \A e \in 1..MaxEntries, a \in PostingAccounts, debit \in AmountInputs,
           credit \in AmountInputs :
          (\/ AddLine(e, a, debit, credit, 1)
           \/ \E l \in 1..MaxLines : EditLine(l, e, a, debit, credit, 1))
          /\ ~ExactlyOneSide(debit, credit)
          => err' = "constraint" /\ lines' = lines /\ entries' = entries]_vars

\* C4 witness: a line write was rejected while a POSTED entry holds a line.
C4_Witness ==
  /\ err = "constraint"
  /\ \E l \in DOMAIN lines : entries[lines[l].entry].status = POSTED

\* C5: no entry is written with a date in a period whose FiscalPeriod row is
\* closed at the time of the write.
C5_NoWriteIntoClosed ==
  [][\A e \in DOMAIN entries' :
       (e \notin DOMAIN entries \/ entries'[e] # entries[e])
         => ~ClosedRecordExists(entries'[e].date)]_vars

-----------------------------------------------------------------------------
(* The line_no backfill, run on a ledger whose lines carry any line_no *)

RunForwards ==
  /\ lines' = forwards(lines)
  /\ applied' = TRUE
  /\ err' = "ok"
  /\ UNCHANGED <<periods, entries, nextEntryId, nextLineId, pend, resp>>

InitBackfill ==
  /\ periods = {}
  /\ entries = [e \in 1..MaxEntries |-> [date |-> 20260115, status |-> DRAFT]]
  /\ \E S \in SUBSET (1..MaxBackfillLines) :
       lines \in [S -> [entry : 1..MaxEntries, account : PostingAccounts,
                        line_no : LineNoInputs, debit : {1}, credit : {0}]]
  /\ nextEntryId = MaxEntries + 1
  /\ nextLineId = MaxBackfillLines + 1
  /\ applied = FALSE
  /\ err = "ok"
  /\ pend = {}
  /\ resp = NoResp

NextBackfill == RunForwards

SpecBackfill == InitBackfill /\ [][NextBackfill]_vars

\* C10: after the backfill each line's line_no is its rank by line key among
\* the lines of its entry (so an entry of N lines holds exactly 1..N), and a
\* further run of the backfill changes no line_no.
C10_Backfill ==
  applied =>
    /\ \A l \in DOMAIN lines :
         lines[l].line_no = Cardinality({x \in LinesOf(lines[l].entry) : x <= l})
    /\ forwards(lines) = lines

\* C10 witness: the backfill has run on a ledger where one entry has two
\* lines and another entry has a line.
C10_Witness ==
  /\ applied
  /\ \E e1, e2 \in DOMAIN entries :
       e1 # e2 /\ Cardinality(LinesOf(e1)) >= 2 /\ LinesOf(e2) # {}

-----------------------------------------------------------------------------
(* Reports, each run once on a ledger drawn from the bounded ledgers *)

LineRows(accts) ==
  {r \in [entry : ReportEntries, account : accts, line_no : {1},
          debit : ReportAmounts, credit : ReportAmounts] :
     constraints(r.debit, r.credit)}

\* the ledgers of at most MaxReportLines lines on the accounts accts, with
\* entries of the given statuses
InitLedger(accts, statuses) ==
  /\ periods = {}
  /\ entries \in [ReportEntries -> [date : Dates, status : statuses]]
  /\ \E n \in 0..MaxReportLines : lines \in [1..n -> LineRows(accts)]
  /\ nextEntryId = Cardinality(ReportEntries) + 1
  /\ nextLineId = Cardinality(DOMAIN lines) + 1
  /\ applied = FALSE
  /\ err = "ok"
  /\ pend = {}
  /\ resp = NoResp

InitReports == InitLedger(SheetAccounts, STATUS_CHOICES)

InitSheet == InitLedger(SheetAccounts, {POSTED})

InitMizan == InitLedger(MizanAccounts, {POSTED})

InitIncome == InitLedger(IncomeAccounts, {POSTED})

GetBalance(acc, year, month) ==
  /\ resp = NoResp
  /\ resp' = [op |-> "get_balance", value |-> get_balance(acc, year, month)]
  /\ UNCHANGED <<periods, entries, lines, nextEntryId, nextLineId, applied, err, pend>>

AccountBalanceUntil(acc, year) ==
  /\ resp = NoResp
  /\ resp' = [op |-> "account_balance_until", value |-> account_balance_until(acc, year)]
  /\ UNCHANGED <<periods, entries, lines, nextEntryId, nextLineId, applied, err, pend>>

NextBalance ==
  \/ \E acc \in Codes, year \in {None} \cup Years, month \in {None} \cup Months :
        GetBalance(acc, year, month)
  \/ \E acc \in Codes, year \in Years : AccountBalanceUntil(acc, year)

SpecBalance == InitReports /\ [][NextBalance]_vars

\* balance_sheet_view
BalanceSheet(year) ==
  /\ resp = NoResp
  /\ resp' = [op |-> "generate_balance", data |-> generate_balance(year)]
  /\ UNCHANGED <<periods, entries, lines, nextEntryId, nextLineId, applied, err, pend>>

NextSheet == \E year \in Years : BalanceSheet(year)

SpecSheet == InitSheet /\ [][NextSheet]_vars

-----------------------------------------------------------------------------
(* Properties of the balances and of the balance sheet *)

Net(S) == SumOf(debit_col, S) - SumOf(credit_col, S)

\* the balance of the lines S of an account of type t, by the sign convention
Signed(t, S) ==
  CASE t \in {ASSET, EXPENSE} -> Net(S)
    [] t \in {LIABILITY, EQUITY, INCOME} -> 0 - Net(S)

WindowLines(acc, year, month) ==
  {l \in DOMAIN lines : /\ lines[l].account = acc
                        /\ (year = None \/ Year(EntryDate(l)) = year)
                        /\ (month = None \/ Month(EntryDate(l)) = month)}

UntilLines(acc, year) ==
  {l \in DOMAIN lines : lines[l].account = acc /\ Year(EntryDate(l)) <= year}

\* C6: get_balance and _account_balance_until return debit - credit over the
\* account's lines in the window for ASSET and EXPENSE accounts and
\* credit - debit for LIABILITY, EQUITY and INCOME accounts, lines of DRAFT and
\* POSTED entries alike, and 0 when no line falls in the window.
C6_BalanceSign ==
  \A acc \in Codes :
    /\ \A year \in {None} \cup Years, month \in {None} \cup Months :
         LET W == WindowLines(acc, year, month)
         IN /\ get_balance(acc, year, month) = Signed(Account[acc], W)
            /\ W = {} => get_balance(acc, year, month) = 0
    /\ \A year \in Years :
         LET U == UntilLines(acc, year)
         IN /\ account_balance_until(acc, year) = Signed(Account[acc], U)
            /\ U = {} => account_balance_until(acc, year) = 0

\* C6 witness: a balance was computed, negative, on a ledger where a
\* credit-normal account has a debit line of a DRAFT entry and a debit-normal
\* account has a line of a POSTED entry.
C6_Witness ==
  /\ resp.op = "get_balance"
  /\ resp.value < 0
  /\ \E l1, l2 \in DOMAIN lines :
       /\ Account[lines[l1].account] \in {LIABILITY, EQUITY, INCOME}
       /\ lines[l1].debit > 0
       /\ entries[lines[l1].entry].status = DRAFT
       /\ Account[lines[l2].account] \in {ASSET, EXPENSE}
       /\ entries[lines[l2].entry].status = POSTED

AllEntriesBalanced == \A e \in DOMAIN entries : total_debit(e) = total_credit(e)

RowCodes(rows) == {rows[i].code : i \in 1..Len(rows)}

\* C7: on a ledger whose entries are all balanced, generate_balance returns
\* match = TRUE for every year; the Equity section carries the DNET line, of
\* balance net_result = sum of INCOME balances - sum of EXPENSE balances,
\* exactly when net_result is not zero, and no row has a zero balance.
C7_SheetMatch ==
  \A year \in Years :
    LET b == generate_balance(year)
        inc == {a \in Codes : Account[a] = INCOME}
        exp == {a \in Codes : Account[a] = EXPENSE}
        bal == [a \in Codes |-> Signed(Account[a], UntilLines(a, year))]
    IN /\ AllEntriesBalanced =>
            b.match /\ b.total_assets = b.total_liabilities_equity
       /\ b.net_result = SumOf(bal, inc) - SumOf(bal, exp)
       /\ (\E i \in 1..Len(b.equities) :
              b.equities[i].code = DNET /\ b.equities[i].balance = b.net_result)
            <=> b.net_result # 0
       /\ \A sec \in {b.assets, b.liabilities, b.equities} :
            \A i \in 1..Len(sec) : sec[i].balance # 0

\* C7 witness: a balance sheet that matches was produced on a balanced ledger
\* with lines, and it carries an asset row and the DNET line.
C7_Witness ==
  /\ resp.op = "generate_balance"
  /\ AllEntriesBalanced
  /\ lines # <<>>
  /\ resp.data.match
  /\ resp.data.assets # <<>>
  /\ resp.data.net_result # 0
  /\ DNET \in RowCodes(resp.data.equities)

-----------------------------------------------------------------------------
(* Trial balance and income statement, each run once on a drawn ledger *)

Mizan(start, end, today) ==
  /\ resp = NoResp
  /\ resp' = [op |-> "mizan", data |-> mizan(start, end, today)]
  /\ UNCHANGED <<periods, entries, lines, nextEntryId, nextLineId, applied, err, pend>>

NextMizan == \E start \in StrInputs, end \in StrInputs, today \in Todays :
               Mizan(start, end, today)

SpecMizan == InitMizan /\ [][NextMizan]_vars

\* income_statement_view
IncomeStatement(year) ==
  /\ resp = NoResp
  /\ resp' = [op |-> "generate_income_statement", data |-> generate_income_statement(year)]
  /\ UNCHANGED <<periods, entries, lines, nextEntryId, nextLineId, applied, err, pend>>

NextIncome == \E year \in Years : IncomeStatement(year)

SpecIncome == InitIncome /\ [][NextIncome]_vars

RangeLines(from, to) == {l \in DOMAIN lines : EntryDate(l) >= from /\ EntryDate(l) <= to}

\* C8: on a ledger whose entries are all balanced, the trial balance reports
\* total_debit = total_credit for every start and end; each row's balance is
\* its debit sum minus its credit sum with no adjustment by account type, and
\* for a range of two dates the rows are those of the accounts with a line in
\* the range.
C8_MizanTotals ==
  \A start \in StrInputs, end \in StrInputs, today \in Todays :
    LET m == mizan(start, end, today)
    IN /\ AllEntriesBalanced => m.total_debit = m.total_credit
       /\ \A i \in 1..Len(m.rows) : m.rows[i].balance = m.rows[i].debit - m.rows[i].credit
       /\ (start.kind = "iso" /\ end.kind = "iso") =>
            LET R == RangeLines(start.date, end.date)
            IN /\ RowCodes(m.rows) = {lines[l].account : l \in R}
               /\ \A i \in 1..Len(m.rows) :
                    LET g == {l \in R : lines[l].account = m.rows[i].code}
                    IN /\ m.rows[i].debit = SumOf(debit_col, g)
                       /\ m.rows[i].credit = SumOf(credit_col, g)

\* C8 witness: a trial balance over a range of two dates was produced on a
\* balanced ledger and has two rows and equal, nonzero totals.
C8_Witness ==
  /\ resp.op = "mizan"
  /\ AllEntriesBalanced
  /\ resp.data.start.kind = "iso" /\ resp.data.end.kind = "iso"
  /\ resp.data.rows_count >= 2
  /\ resp.data.total_debit = resp.data.total_credit
  /\ resp.data.total_debit > 0

\* the lines of account a dated in the year
YearLines(a, year) == {l \in DOMAIN lines : lines[l].account = a /\ Year(EntryDate(l)) = year}

AmountOf(rows, code) ==
  {rows[i].amount : i \in {j \in 1..Len(rows) : rows[j].code = code}}

\* C9: in the income statement the code prefix decides before the type: an
\* account with lines in the year and a nonzero amount is reported as an
\* expense of debit - credit when its code starts with 7, as income of
\* credit - debit when its code starts with 6, whatever its type; an account of
\* neither prefix nor type is reported nowhere and no account is in both lists.
C9_PrefixFirst ==
  resp.op = "generate_income_statement" =>
    \A a \in Codes :
      LET r == resp.data
          n == Net(YearLines(a, r.year))
      IN /\ (startswith(a, 7) /\ n # 0) =>
              AmountOf(r.expenses, a) = {n} /\ AmountOf(r.incomes, a) = {}
         /\ (startswith(a, 6) /\ n # 0) =>
              AmountOf(r.incomes, a) = {0 - n} /\ AmountOf(r.expenses, a) = {}
         /\ (~startswith(a, 6) /\ ~startswith(a, 7)
               /\ Account[a] \notin {INCOME, EXPENSE}) =>
              AmountOf(r.incomes, a) = {} /\ AmountOf(r.expenses, a) = {}
         /\ AmountOf(r.incomes, a) = {} \/ AmountOf(r.expenses, a) = {}

(* Journal entry list and the date filters of both views *)

\* parse_date as get_queryset calls it: the date of an ISO calendar date, None
\* for a string that is not date-shaped, ValueError for a date-shaped string
\* that names no calendar date
parse_date(str) ==
  CASE str.kind = "iso" -> [raised |-> FALSE, value |-> str.date]
    [] str.kind = "nodate" -> [raised |-> TRUE, value |-> None]
    [] OTHER -> [raised |-> FALSE, value |-> None]

\* parse_date(s) if s else None
parse_if(str) ==
  IF str.kind = "absent" THEN [raised |-> FALSE, value |-> None] ELSE parse_date(str)

\* order_by("-date", "-id"): e comes before f
NewerFirst(e, f) ==
  \/ entries[e].date > entries[f].date
  \/ entries[e].date = entries[f].date /\ e > f

RECURSIVE OrderByDateId(_)
OrderByDateId(S) ==
  IF S = {} THEN <<>>
  ELSE LET e == CHOOSE x \in S : \A y \in S \ {x} : NewerFirst(x, y)
       IN <<e>> \o OrderByDateId(S \ {e})

\* JournalEntryListView.get_queryset: the entries listed, or the exception
\* that leaves the method
get_queryset(start_str, end_str) ==
  LET start == parse_if(start_str)
      end == parse_if(end_str)
      qs0 == DOMAIN entries
      qs1 == IF start.value # None THEN {e \in qs0 : entries[e].date >= start.value} ELSE qs0
      qs2 == IF end.value # None THEN {e \in qs1 : entries[e].date <= end.value} ELSE qs1
  IN IF start.raised \/ end.raised
     THEN [error |-> "ValueError", entries |-> <<>>]
     ELSE [error |-> "none", entries |-> OrderByDateId(qs2)]

\* GET /journal/?start=..&end=..
JournalEntryList(start, end) ==
  /\ resp = NoResp
  /\ resp' = [op |-> "journal_list", start |-> start, end |-> end,
              data |-> get_queryset(start, end)]
  /\ UNCHANGED <<periods, entries, lines, nextEntryId, nextLineId, applied, err, pend>>

NextList == \E start \in StrInputs, end \in StrInputs : JournalEntryList(start, end)

NextFilters == NextMizan \/ NextList

SpecFilters == InitMizan /\ [][NextFilters]_vars

\* a bound given as a calendar date
Parsable(str) == str.kind = "iso"

\* d satisfies every parsable bound
WithinBounds(d, start, end) ==
  /\ Parsable(start) => d >= start.date
  /\ Parsable(end) => d <= end.date

\* the trial balance counts the lines whose date satisfies every parsable bound
C11_MizanBounds ==
  resp.op = "mizan" =>
    resp.data.lines_count =
      Cardinality({l \in DOMAIN lines :
                     WithinBounds(EntryDate(l), resp.data.start, resp.data.end)})

\* the journal list raises nothing and lists the entries whose date satisfies
\* every parsable bound
C11_ListBounds ==
  resp.op = "journal_list" =>
    /\ resp.data.error = "none"
    /\ {resp.data.entries[i] : i \in 1..Len(resp.data.entries)} =
         {e \in DOMAIN entries : WithinBounds(entries[e].date, resp.start, resp.end)}

\* C11: in the trial balance and in the journal entry list, whatever the start
\* and end strings are (a calendar date, not date-shaped, or date-shaped but no
\* calendar date), an unparsable bound raises no error out of the operation and
\* counts as no bound on its own side only: the other bound, when it is a
\* calendar date, still restricts the result.
C11_UnparsableBoundIsNoBound ==
  /\ C11_MizanBounds
  /\ C11_ListBounds

====
